---- MODULE Spec2Model ----
(***************************************************************************)
(* Model of jira_metrics_exporter.py: the startup of the process, the      *)
(* polling worker (metrics_collection_loop), its changelog reductions, the *)
(* comment-alert dedup state, the web endpoints and the helpers they call. *)
(*                                                                         *)
(* Time is counted in whole hours since a Monday 00:00; a datetime is a    *)
(* natural number of hours, its date() is (hours \div 24) and the weekday  *)
(* of a date d is d % 7 (0 = Monday), as datetime.weekday() numbers them.  *)
(* Python's None is the empty tuple << >> and a value v held in an         *)
(* optional variable is <<v>>.                                             *)
(***************************************************************************)
EXTENDS Integers, Sequences, FiniteSets, TLC

(***************************************************************************)
(* Bounds of the model.                                                    *)
(***************************************************************************)
\* longest status path (number of status changes) of an enumerated changelog
MaxLen == 4
\* number of polling cycles the worker is followed for
MaxCycles == 3
\* last day (counted from the Monday of the epoch) of the instants
\* business_hours_between is called on
MaxDays == 9

None == << >>
Some(v) == <<v>>

\* list(reversed(xs))
Reversed(xs) == [i \in 1..Len(xs) |-> xs[Len(xs) + 1 - i]]

(***************************************************************************)
(* Helpers (lines 48-56).                                                  *)
(***************************************************************************)
\* the calendar date of a datetime, as a day number
DateOf(dt) == dt \div 24

\* date.weekday(): 0 = Monday ... 6 = Sunday
Weekday(d) == d % 7

\* lines 48-50 with range(days) in place of range(days + 1): the last day is left out
business_hours_between_exclusive(start_dt, end_dt) ==
    Cardinality({i \in 0..(DateOf(end_dt) - DateOf(start_dt) - 1) :
                    Weekday(DateOf(start_dt) + i) < 5}) * 8

\* lines 48-50: 8 hours for every weekday from start.date() to end.date()
business_hours_between(start_dt, end_dt) ==
    Cardinality({i \in 0..(DateOf(end_dt) - DateOf(start_dt)) :
                    Weekday(DateOf(start_dt) + i) < 5}) * 8

\* A timestamp string of the tracker: its layout and the instant it names.
\* "frac" is '%Y-%m-%dT%H:%M:%S.%f%z', "nofrac" is '%Y-%m-%dT%H:%M:%S%z',
\* "bad" is any other string.
Layouts == {"frac", "nofrac", "bad"}
DateStr(layout, t) == [layout |-> layout, t |-> t]

\* lines 52-56: try the fractional layout, on ValueError the plain one;
\* the second strptime's ValueError propagates.
parse_jira_date(date_str) ==
    IF date_str.layout = "frac"
    THEN [raised |-> FALSE, val |-> date_str.t]
    ELSE IF date_str.layout = "nofrac"
         THEN [raised |-> FALSE, val |-> date_str.t]
         ELSE [raised |-> TRUE, val |-> 0]

(***************************************************************************)
(* Changelog reductions (lines 215-233 and 245-257).                       *)
(* A history is [created |-> timestamp string, items |-> sequence of       *)
(* [field, fromString, toString]].                                         *)
(***************************************************************************)
Item(field, from, to) == [field |-> field, fromString |-> from, toString |-> to]

\* line 216
DevAcc0 == [in_progress_time |-> None, ready_for_prod_time |-> None,
            rework_events |-> 0, raised |-> FALSE]

\* line 225 with the from-state test dropped: every entry into In Progress counts
IsRework_any(item) == item.toString = "In Progress"

\* line 225
IsRework(item) ==
    /\ item.fromString \in {"TEST", "In Progress C"}
    /\ item.toString = "In Progress"

\* line 223
SetsReady(acc, item) ==
    item.toString = "IN PROGRESS D" /\ acc.ready_for_prod_time = None

\* lines 220-226: the body of the inner loop of the developer reduction
DevItem(acc, created, item) ==
    IF item.field # "status" THEN acc
    ELSE
      LET p == parse_jira_date(created)
          a1 == IF item.toString = "In Progress"
                THEN IF p.raised THEN [acc EXCEPT !.raised = TRUE]
                     ELSE [acc EXCEPT !.in_progress_time = Some(p.val)]
                ELSE acc
          a2 == IF ~a1.raised /\ SetsReady(a1, item)
                THEN IF p.raised THEN [a1 EXCEPT !.raised = TRUE]
                     ELSE [a1 EXCEPT !.ready_for_prod_time = Some(p.val)]
                ELSE a1
          a3 == IF ~a2.raised /\ IsRework(item)
                THEN [a2 EXCEPT !.rework_events = @ + 1]
                ELSE a2
      IN a3

RECURSIVE DevItems(_, _, _, _)
\* line 219: for item in history.items
DevItems(acc, created, items, j) ==
    IF j > Len(items) \/ acc.raised THEN acc
    ELSE DevItems(DevItem(acc, created, items[j]), created, items, j + 1)

\* lines 218-226 for one history
DevHistory(acc, history) == DevItems(acc, history.created, history.items, 1)

RECURSIVE DevHistories(_, _, _)
\* line 218: for history in issue.changelog.histories
DevHistories(acc, histories, i) ==
    IF i > Len(histories) \/ acc.raised THEN acc
    ELSE DevHistories(DevHistory(acc, histories[i]), histories, i + 1)

\* lines 216-226: the developer reduction of one issue
DevReduce(histories) == DevHistories(DevAcc0, histories, 1)

\* lines 228 and 255: a duration is computed only when both times were found
HasBoth(start_time, end_time) == start_time # None /\ end_time # None

\* line 246
QaAcc0 == [test_start_time |-> None, test_end_time |-> None, raised |-> FALSE]

\* lines 249-253: the body of the inner loop of the QA reduction
QaItem(acc, created, item) ==
    IF item.field # "status" THEN acc
    ELSE
      LET p == parse_jira_date(created)
          a1 == IF item.toString = "TEST" /\ acc.test_start_time = None
                THEN IF p.raised THEN [acc EXCEPT !.raised = TRUE]
                     ELSE [acc EXCEPT !.test_start_time = Some(p.val)]
                ELSE acc
          a2 == IF /\ ~a1.raised
                   /\ item.fromString = "TEST"
                   /\ a1.test_start_time # None
                   /\ a1.test_end_time = None
                THEN IF p.raised THEN [a1 EXCEPT !.raised = TRUE]
                     ELSE [a1 EXCEPT !.test_end_time = Some(p.val)]
                ELSE a1
      IN a2

RECURSIVE QaItems(_, _, _, _)
\* line 248: for item in history.items
QaItems(acc, created, items, j) ==
    IF j > Len(items) \/ acc.raised THEN acc
    ELSE QaItems(QaItem(acc, created, items[j]), created, items, j + 1)

\* lines 248-253 for one history
QaHistory(acc, history) == QaItems(acc, history.created, history.items, 1)

RECURSIVE QaHistories(_, _, _)
\* line 247, applied to the reversed list
QaHistories(acc, histories, i) ==
    IF i > Len(histories) \/ acc.raised THEN acc
    ELSE QaHistories(QaHistory(acc, histories[i]), histories, i + 1)

\* lines 246-253: the QA reduction of one issue
QaReduce(histories) == QaHistories(QaAcc0, Reversed(histories), 1)

\* lines 228-230 recording a zero for an issue whose start or end is missing
DevCycleHours_zero(acc) ==
    IF acc.in_progress_time # None /\ acc.ready_for_prod_time # None
    THEN Some(business_hours_between(acc.in_progress_time[1], acc.ready_for_prod_time[1]))
    ELSE Some(0)

\* lines 228-230: the cycle-time sample of one reduced issue, None when there is none
DevCycleHours(acc) ==
    IF HasBoth(acc.in_progress_time, acc.ready_for_prod_time)
    THEN Some(business_hours_between(acc.in_progress_time[1], acc.ready_for_prod_time[1]))
    ELSE None

\* lines 232-233: the increment of dev_rework_total for one reduced issue
DevReworkInc(acc) == IF acc.rework_events > 0 THEN acc.rework_events ELSE 0

\* lines 255-257: the testing-duration sample (days) of one reduced issue
QaTestDays(acc) ==
    IF HasBoth(acc.test_start_time, acc.test_end_time)
    THEN Some(business_hours_between(acc.test_start_time[1], acc.test_end_time[1]) \div 8)
    ELSE None

(***************************************************************************)
(* The changelogs the reductions are checked on: every status path of at   *)
(* most MaxLen status changes over the workflow's states, presented        *)
(* oldest-first or newest-first, optionally with one unparseable           *)
(* timestamp, optionally with a non-status item in every history.          *)
(***************************************************************************)
Statuses == {"New", "In Progress", "TEST", "In Progress C", "IN PROGRESS D"}

StatusPaths == UNION {{p \in [1..(n + 1) -> Statuses] : \A k \in 1..n : p[k] # p[k + 1]} :
                        n \in 0..MaxLen}

\* the instant of the k-th status change of a path: 16 hours apart, from Monday 09:00
EventTime(k) == 9 + 16 * (k - 1)

\* a change of another field whose strings look like statuses
OtherFieldItem == Item("resolution", "TEST", "In Progress")

\* histories of a status path, oldest first
ChronHistories(p, badAt, other) ==
    [k \in 1..(Len(p) - 1) |->
        [created |-> DateStr(IF k = badAt THEN "bad"
                             ELSE IF k % 2 = 1 THEN "frac" ELSE "nofrac",
                             EventTime(k)),
         items |-> (IF other THEN <<OtherFieldItem>> ELSE << >>)
                   \o <<Item("status", p[k], p[k + 1])>>]]

Changelogs ==
    {IF newestFirst THEN Reversed(ChronHistories(p, badAt, other))
                    ELSE ChronHistories(p, badAt, other) :
        p \in StatusPaths, badAt \in 0..MaxLen, other \in BOOLEAN, newestFirst \in BOOLEAN}

(***************************************************************************)
(* Dictionaries (Python dict) are functions with a finite domain.          *)
(***************************************************************************)
EmptyDict == << >>
\* d[k] = v dropping the other keys of d
DictPut_only(d, k, v) == [x \in {k} |-> v]

\* d[k] = v
DictPut(d, k, v) == [x \in (DOMAIN d) \cup {k} |-> IF x = k THEN v ELSE d[x]]
\* d.get(k), with "None" for a missing key
DictGet(d, k) == IF k \in DOMAIN d THEN d[k] ELSE "None"

(***************************************************************************)
(* The registry of one cycle (lines 141-177).  A labelled metric is a      *)
(* dictionary from the label value to the child's value; a Summary child   *)
(* is [count, sum]; the Histogram has the buckets 1, 2, 3, 5, +Inf.        *)
(***************************************************************************)
HistBuckets == <<1, 2, 3, 5>>

\* lines 141-177 handing out a registry that still holds the last cycle's
\* cycle-time observation and rework count of a developer
FreshRegistry_stale ==
    [dev_tickets_in_progress |-> EmptyDict,
     dev_avg_time_in_progress |-> EmptyDict,
     dev_cycle_time |-> DictPut(EmptyDict, "Dev One", [count |-> 1, sum |-> 24]),
     dev_rework_count |-> DictPut(EmptyDict, "Dev One", 1),
     qa_cycle_time |-> [count |-> 0, sum |-> 0, buckets |-> <<0, 0, 0, 0, 0>>]]

\* lines 141-177: CollectorRegistry() with the five metrics, nothing observed
FreshRegistry ==
    [dev_tickets_in_progress |-> EmptyDict,
     dev_avg_time_in_progress |-> EmptyDict,
     dev_cycle_time |-> EmptyDict,
     dev_rework_count |-> EmptyDict,
     qa_cycle_time |-> [count |-> 0, sum |-> 0, buckets |-> <<0, 0, 0, 0, 0>>]]

\* Summary.labels(l).observe(v)
SummaryObserve(metric, label, v) ==
    LET old == IF label \in DOMAIN metric THEN metric[label]
               ELSE [count |-> 0, sum |-> 0]
    IN DictPut(metric, label, [count |-> old.count + 1, sum |-> old.sum + v])

\* Counter.labels(l).inc(n)
CounterInc(metric, label, n) ==
    DictPut(metric, label, (IF label \in DOMAIN metric THEN metric[label] ELSE 0) + n)

\* Histogram.observe(v): every bucket whose bound is >= v, and +Inf, counts it
HistogramObserve(h, v) ==
    [count |-> h.count + 1,
     sum |-> h.sum + v,
     buckets |-> [b \in 1..5 |-> IF b = 5 \/ v <= HistBuckets[b]
                                 THEN h.buckets[b] + 1 ELSE h.buckets[b]]]

(***************************************************************************)
(* The developer phase for one developer (lines 183-233).                  *)
(***************************************************************************)
\* datetime.now(): a Monday 00:00 one week after the epoch
Now == 7 * 24

RECURSIVE FirstInProgress(_, _)
\* lines 199-204: the first status item into In Progress of one history
\* (the break leaves the item loop only): its index, 0 when there is none
FirstInProgress(items, j) ==
    IF j > Len(items) THEN 0
    ELSE IF items[j].field = "status" /\ items[j].toString = "In Progress" THEN j
    ELSE FirstInProgress(items, j + 1)

RECURSIVE HoursInProgress(_, _, _)
\* lines 198-204 for one ticket: total_hours grows by (now - created) for every
\* history that holds a status item into In Progress
HoursInProgress(acc, hs, i) ==
    IF i > Len(hs) \/ acc.raised THEN acc
    ELSE IF FirstInProgress(hs[i].items, 1) = 0 THEN HoursInProgress(acc, hs, i + 1)
    ELSE LET p == parse_jira_date(hs[i].created) IN
         IF p.raised THEN [acc EXCEPT !.raised = TRUE]
         ELSE HoursInProgress([acc EXCEPT !.total_hours = @ + (Now - p.val)], hs, i + 1)

RECURSIVE DevIssues(_, _, _, _)
\* lines 215-233: for issue in recent_issues; the result is the registry and
\* whether a timestamp parse raised on the way
DevIssues(st, dev_name, issues, i) ==
    IF i > Len(issues) \/ st.raised THEN st
    ELSE LET acc == DevReduce(issues[i].histories)
             hours == DevCycleHours(acc)
             r1 == IF hours = None THEN st.registry
                   ELSE [st.registry EXCEPT !.dev_cycle_time =
                            SummaryObserve(@, dev_name, hours[1])]
             r2 == IF DevReworkInc(acc) > 0
                   THEN [r1 EXCEPT !.dev_rework_count =
                            CounterInc(@, dev_name, DevReworkInc(acc))]
                   ELSE r1
         IN IF acc.raised THEN [st EXCEPT !.raised = TRUE]
            ELSE DevIssues([st EXCEPT !.registry = r2], dev_name, issues, i + 1)

RECURSIVE QaIssues(_, _, _)
\* lines 245-257: for issue in qa_done_issues
QaIssues(st, issues, i) ==
    IF i > Len(issues) \/ st.raised THEN st
    ELSE LET acc == QaReduce(issues[i].histories)
             days == QaTestDays(acc)
         IN IF acc.raised THEN [st EXCEPT !.raised = TRUE]
            ELSE QaIssues(IF days = None THEN st
                          ELSE [st EXCEPT !.registry.qa_cycle_time =
                                   HistogramObserve(@, days[1])],
                          issues, i + 1)

(***************************************************************************)
(* What the tracker holds, for the worker's queries.                       *)
(***************************************************************************)
\* most issues one query of the developer or QA phase returns
MaxIssues == 2

History(layout, t, from, to) ==
    [created |-> DateStr(layout, t), items |-> <<Item("status", from, to)>>]

\* New -> In Progress on Monday 09:00, In Progress -> IN PROGRESS D on Wednesday 09:00
IssueA == [key |-> "GRV-A",
           histories |-> <<History("frac", 9, "New", "In Progress"),
                           History("frac", 57, "In Progress", "IN PROGRESS D")>>]
\* never entered In Progress
IssueB == [key |-> "GRV-B",
           histories |-> <<History("nofrac", 9, "New", "TEST")>>]
\* sent back from TEST once; presented newest first
IssueR == [key |-> "GRV-R",
           histories |-> <<History("frac", 105, "In Progress", "IN PROGRESS D"),
                           History("frac", 33, "TEST", "In Progress"),
                           History("frac", 25, "In Progress", "TEST"),
                           History("frac", 9, "New", "In Progress")>>]
\* entered In Progress on Monday 09:00 and is still there
IssueS == [key |-> "GRV-S",
           histories |-> <<History("frac", 9, "New", "In Progress")>>]
\* a timestamp no layout matches
IssueBad == [key |-> "GRV-X",
             histories |-> <<History("bad", 9, "New", "In Progress")>>]

SampleIssues == {IssueA, IssueB, IssueR, IssueBad}

\* the results a search can return: at most n distinct issues, in any order
SeqsOfDistinct(S, n) ==
    UNION {{q \in [1..k -> S] : \A a, b \in 1..k : a # b => q[a] # q[b]} : k \in 0..n}

IssueLists == SeqsOfDistinct(SampleIssues, MaxIssues)
\* the results of the search of line 213: those lists, and the lists of an
\* issue with both events and an issue that has a start and no end
RecentLists == IssueLists \cup SeqsOfDistinct({IssueA, IssueS}, MaxIssues)
CurrentLists == SeqsOfDistinct({IssueA, IssueBad}, 1)

\* critical tickets of the project and the comments they can carry
Tickets == {"GRV-1", "GRV-2"}
\* the tickets a search returns, in key order
TicketLists == {<< >>, <<"GRV-1">>, <<"GRV-2">>, <<"GRV-1", "GRV-2">>}
CommentIds == {"c1", "c2", "c3"}
\* the author's accountId of each comment
AuthorOf(id) == IF id = "c3" THEN "acc-qa" ELSE "acc-ext"

\* the names of the name lists (lines 36-38) when they are set; PM_LIST is not set
DEVELOPER_NAMES == <<"Dev One">>
QA_NAMES == <<"QA One">>
PM_NAMES == << >>
\* the account a display name resolves to
AccountOf(name) == IF name = "Dev One" THEN "acc-dev" ELSE "acc-qa"

RECURSIVE BuildMap(_, _, _, _)
\* lines 72-82: found[name] is what search_users does for the name:
\* "found", "none" (empty result) or "error" (it raises, which is caught)
BuildMap(user_map, names, found, i) ==
    IF i > Len(names) THEN user_map
    ELSE BuildMap(IF found[names[i]] = "found"
                  THEN DictPut(user_map, AccountOf(names[i]), names[i])
                  ELSE user_map,
                  names, found, i + 1)

\* lines 66-86
build_user_map_once(names, found) ==
    IF names # << >> THEN BuildMap(EmptyDict, names, found, 1) ELSE EmptyDict

\* lines 339-340: total_users == 0
NoUsers(d, q, m) ==
    Cardinality(DOMAIN d) + Cardinality(DOMAIN q) + Cardinality(DOMAIN m) = 0

\* list(d.keys()) of a dictionary with at most one key
KeysList(d) == IF DOMAIN d = {} THEN << >> ELSE <<CHOOSE k \in DOMAIN d : TRUE>>

\* lines 58-64: what becomes of one send_alert call; it never raises.
\* "failed" is the branch of lines 63-64: the RequestException is caught and
\* logged as an error, and the post is not repeated.
send_alert(webhook, post_ok) ==
    IF ~webhook THEN "no_webhook"
    ELSE IF post_ok THEN "delivered" ELSE "failed"

\* lines 267-274 for one ticket that has a reporter: the send_alert call and
\* what became of it; post_ok tells whether the post succeeds
NewCriticalSend(ticket, webhook, post_ok) ==
    [kind |-> "new_critical", key |-> ticket, comment |-> "",
     result |-> send_alert(webhook, post_ok)]

\* line 299 catching only the tracker's errors
Catches_jira(e) == e = "JIRAError"

\* line 299 letting the HTTP error of the metrics push through
Catches_nohttp(e) == e \notin {"BaseException", "KeyboardInterrupt", "SystemExit",
                               "GeneratorExit", "CancelledError", "BaseExceptionGroup",
                               "HTTPError"}

\* the exception classes that do not derive from Exception: BaseException
\* itself and its direct subclasses other than Exception
BaseOnly == {"BaseException", "KeyboardInterrupt", "SystemExit", "GeneratorExit",
             "CancelledError", "BaseExceptionGroup"}

\* line 299: "except Exception" catches every exception a cycle raises that
\* derives from Exception (JIRAError, ValueError, HTTPError, ConnectionError,
\* AttributeError, TypeError, KeyError, ...), and nothing else
Catches(e) == e \notin BaseOnly

\* line 293 recording the comment only when its alert was delivered
RecordAlert_delivered(alerted, key, comment_id, sent) ==
    IF sent = "delivered" THEN DictPut(alerted, key, comment_id) ELSE alerted

\* line 293: the statement after send_alert(...) of line 292, which returns
\* normally whatever became of the post (sent): the entry is always written
RecordAlert(alerted, key, comment_id, sent) == DictPut(alerted, key, comment_id)

\* lines 284-285 without the dedup test
ShouldAlert_nodedup(internal_ids, alerted, key, comment) ==
    comment.author \notin internal_ids

\* lines 284-285
ShouldAlert(internal_ids, alerted, key, comment) ==
    /\ comment.author \notin internal_ids
    /\ DictGet(alerted, key) # comment.id

(***************************************************************************)
(* State.                                                                  *)
(***************************************************************************)
VARIABLES
    \* one changelog reduction, followed history by history
    r_kind,      \* which reduction runs on the issue: "dev" (215-233) or "qa" (245-257)
    histories,   \* issue.changelog.histories as the tracker presented them
    r_idx,       \* histories consumed by the loop so far
    r_acc,       \* the reduction's local variables
    r_pc,        \* "loop", "recorded" (lines 228-233 / 255-257 ran) or "raised"
    r_out,       \* what the issue contributed to the registry
    \* the process
    pc,                        \* where the main thread, then the worker, stands
    exit_code,                 \* 0 until the process exits with status 1
    server,                    \* the main thread after line 352: "off" before it, "starting"
                               \* at lines 356-358, "serving" once app.run answers
    GMAIL_CHAT_WEBHOOK,        \* TRUE when the variable is set
    DEVELOPER_MAP, QA_MAP, PM_MAP,
    internal_user_ids,         \* line 124
    ALERTED_TICKETS,           \* line 45
    cycle_count,               \* line 134
    registry,                  \* line 141
    dev_todo,                  \* developers the loop of line 183 has still to visit
    current_tickets,           \* line 186
    ticket_idx,                \* tickets the running loop of line 194 or 266 has visited
    total_hours,               \* line 193
    recent_issues,             \* line 213
    qa_done_issues,            \* line 241
    new_critical_tickets,      \* line 264
    critical_updated_tickets,  \* line 278: the tickets the loop of line 280 has still to visit
    last_comment,              \* line 283, with the ticket it belongs to; None when there is none
    exc,                       \* the exception the cycle raised, "" when none
    push_attempts,             \* calls of send_to_grafana_remote_write in this cycle
    published,                 \* the snapshot the backend accepted in this cycle, None when none
    outbox,                    \* the send_alert calls made since the latest tracker call
                               \* returned, with their outcome
    fired,                     \* the (ticket, comment id) pairs send_alert has run for
    \* state the worker never writes
    DEVELOPER_NAMES_STR,       \* line 36: the names of DEVELOPER_LIST, << >> when it is not set
    QA_NAMES_STR,              \* line 37: the names of QA_LIST, << >> when it is not set
    response,                  \* what the web server answered last, None before any request
    \* one call of business_hours_between
    start_dt, end_dt,          \* its arguments
    bh_result                  \* what it returned, None before the call

rvars == <<r_kind, histories, r_idx, r_acc, r_pc, r_out>>

dvars == <<current_tickets, ticket_idx, total_hours>>

wvars == <<pc, exit_code, server, GMAIL_CHAT_WEBHOOK, DEVELOPER_MAP, QA_MAP, PM_MAP,
           internal_user_ids, ALERTED_TICKETS, cycle_count, registry, dev_todo, dvars,
           recent_issues, qa_done_issues, new_critical_tickets,
           critical_updated_tickets, last_comment, exc, push_attempts, published,
           outbox, fired>>

svars == <<DEVELOPER_NAMES_STR, QA_NAMES_STR, response, start_dt, end_dt, bh_result>>

vars == <<rvars, wvars, svars>>

NoOut == [cycle_hours |-> None, rework_inc |-> 0, test_days |-> None]

\* no call of business_hours_between is followed
NoCall == start_dt = 0 /\ end_dt = 0 /\ bh_result = None

\* the module-level state of lines 40-45, before __main__ runs, and a web
\* server that has answered nothing
InitGlobals ==
    /\ pc = "main"
    /\ exit_code = 0
    /\ server = "off"
    /\ response = None
    /\ DEVELOPER_MAP = EmptyDict /\ QA_MAP = EmptyDict /\ PM_MAP = EmptyDict
    /\ internal_user_ids = {}
    /\ ALERTED_TICKETS = [new_comment |-> EmptyDict]
    /\ cycle_count = 0
    /\ registry = FreshRegistry
    /\ dev_todo = << >>
    /\ current_tickets = << >> /\ ticket_idx = 0 /\ total_hours = 0
    /\ recent_issues = << >>
    /\ qa_done_issues = << >>
    /\ new_critical_tickets = << >>
    /\ critical_updated_tickets = << >>
    /\ last_comment = None
    /\ exc = ""
    /\ push_attempts = 0
    /\ published = None
    /\ outbox = << >>
    /\ fired = {}

\* lines 26-45 with DEVELOPER_LIST and QA_LIST set; the webhook is set or not
InitProcess ==
    /\ InitGlobals
    /\ NoCall
    /\ GMAIL_CHAT_WEBHOOK \in BOOLEAN
    /\ DEVELOPER_NAMES_STR = DEVELOPER_NAMES
    /\ QA_NAMES_STR = QA_NAMES

NoReduction ==
    /\ r_kind = "dev" /\ histories = << >> /\ r_idx = 0
    /\ r_acc = DevAcc0 /\ r_pc = "loop" /\ r_out = NoOut

(***************************************************************************)
(* The reductions, one history per step.                                   *)
(***************************************************************************)
InitReduce ==
    /\ r_kind \in {"dev", "qa"}
    /\ histories \in Changelogs
    /\ r_idx = 0
    /\ r_acc = IF r_kind = "dev" THEN DevAcc0 ELSE QaAcc0
    /\ r_pc = "loop"
    /\ r_out = NoOut
    /\ InitProcess
    /\ GMAIL_CHAT_WEBHOOK

\* lines 218-226: one iteration of "for history in issue.changelog.histories"
DevReduceStep ==
    /\ r_kind = "dev" /\ r_pc = "loop" /\ r_idx < Len(histories)
    /\ LET a == DevHistory(r_acc, histories[r_idx + 1]) IN
         /\ r_acc' = a
         /\ r_pc' = IF a.raised THEN "raised" ELSE "loop"
    /\ r_idx' = r_idx + 1
    /\ UNCHANGED <<r_kind, histories, r_out, wvars, svars>>

\* lines 228-233: after the loop
DevRecord ==
    /\ r_kind = "dev" /\ r_pc = "loop" /\ r_idx = Len(histories)
    /\ r_out' = [NoOut EXCEPT !.cycle_hours = DevCycleHours(r_acc),
                              !.rework_inc = DevReworkInc(r_acc)]
    /\ r_pc' = "recorded"
    /\ UNCHANGED <<r_kind, histories, r_idx, r_acc, wvars, svars>>

\* lines 247-253: one iteration of "for history in reversed(issue.changelog.histories)"
QaReduceStep ==
    /\ r_kind = "qa" /\ r_pc = "loop" /\ r_idx < Len(histories)
    /\ LET a == QaHistory(r_acc, Reversed(histories)[r_idx + 1]) IN
         /\ r_acc' = a
         /\ r_pc' = IF a.raised THEN "raised" ELSE "loop"
    /\ r_idx' = r_idx + 1
    /\ UNCHANGED <<r_kind, histories, r_out, wvars, svars>>

\* lines 255-257: after the loop
QaRecord ==
    /\ r_kind = "qa" /\ r_pc = "loop" /\ r_idx = Len(histories)
    /\ r_out' = [NoOut EXCEPT !.test_days = QaTestDays(r_acc)]
    /\ r_pc' = "recorded"
    /\ UNCHANGED <<r_kind, histories, r_idx, r_acc, wvars, svars>>

NextReduce == DevReduceStep \/ DevRecord \/ QaReduceStep \/ QaRecord

SpecReduce == InitReduce /\ [][NextReduce]_vars

(***************************************************************************)
(* What a changelog holds, read off the events themselves.                 *)
(***************************************************************************)
\* the places <<history, item>> of the status items of a changelog
StatusItems(hs) ==
    {ij \in UNION {{<<i, j>> : j \in 1..Len(hs[i].items)} : i \in 1..Len(hs)} :
        hs[ij[1]].items[ij[2]].field = "status"}

\* the instants of the status changes into one of the states
EntryTimes(hs, states) ==
    {hs[ij[1]].created.t : ij \in {x \in StatusItems(hs) :
                                      hs[x[1]].items[x[2]].toString \in states}}

MinOf(S) == CHOOSE x \in S : \A y \in S : x <= y

\* the chronologically first entry into one of the states, None when there is none
FirstEntry(hs, states) ==
    IF EntryTimes(hs, states) = {} THEN None ELSE Some(MinOf(EntryTimes(hs, states)))

\* the first entry into one of the states after the instant start
FirstEntryAfter(hs, states, start) ==
    LET later == {t \in EntryTimes(hs, states) : t > start}
    IN IF later = {} THEN None ELSE Some(MinOf(later))

\* the status changes that match the rework pattern
ReworkItems(hs) ==
    {ij \in StatusItems(hs) :
        /\ hs[ij[1]].items[ij[2]].fromString \in {"TEST", "In Progress C"}
        /\ hs[ij[1]].items[ij[2]].toString = "In Progress"}

\* the first n histories of a changelog
Prefix(hs, n) == SubSeq(hs, 1, n)

(***************************************************************************)
(* Properties of the changelog reductions.                                 *)
(***************************************************************************)
\* C6: when the developer reduction of an issue has run, startTime
\* (in_progress_time) is the timestamp of the chronologically first status
\* event into the start state, whatever the order of the events in the input.
C6_StartIsFirstEntry ==
    (r_kind = "dev" /\ r_pc = "recorded")
        => r_acc.in_progress_time = FirstEntry(histories, {"In Progress"})

\* C7: when the developer reduction of an issue has run, endTime
\* (ready_for_prod_time) is the timestamp of the first event after startTime
\* whose to-state is the end state, and is absent when there is no such event.
C7_EndIsFirstAfterStart ==
    (r_kind = "dev" /\ r_pc = "recorded")
        => r_acc.ready_for_prod_time =
              (IF r_acc.in_progress_time = None THEN None
               ELSE FirstEntryAfter(histories, {"IN PROGRESS D"},
                                    r_acc.in_progress_time[1]))

\* C8: in both reductions endTime is never set while startTime is unset: an
\* end event met before any start event leaves endTime absent, and with no
\* start event at all both are absent.
C8_NoEndBeforeStart ==
    /\ r_kind = "dev" =>
          (r_acc.in_progress_time = None => r_acc.ready_for_prod_time = None)
    /\ r_kind = "qa" =>
          (r_acc.test_start_time = None => r_acc.test_end_time = None)

\* C10: while the developer reduction runs and when it has run, rework_events
\* is the number of status events consumed so far whose from-state is TEST or
\* In Progress C and whose to-state is In Progress, whatever startTime and
\* endTime are; it is never negative, and the counter's increment is that number.
C10_ReworkCount ==
    (r_kind = "dev" /\ r_pc # "raised")
        => /\ r_acc.rework_events = Cardinality(ReworkItems(Prefix(histories, r_idx)))
           /\ r_acc.rework_events >= 0
           /\ r_pc = "recorded" =>
                 r_out.rework_inc = Cardinality(ReworkItems(histories))

\* C10: New -> In Progress -> TEST -> In Progress -> IN PROGRESS D has been reduced
\* and counts one rework
C10_Witness ==
    /\ r_kind = "dev" /\ r_pc = "recorded"
    /\ histories = ChronHistories(<<"New", "In Progress", "TEST", "In Progress",
                                    "IN PROGRESS D">>, 0, FALSE)
    /\ r_acc.rework_events = 1
    /\ r_out.rework_inc = 1

(***************************************************************************)
(* The process: __main__ (lines 322-358) and the worker thread             *)
(* (lines 117-303).                                                        *)
(***************************************************************************)
Init == InitProcess /\ NoReduction

\* lines 324-329: JIRA(...) connects, or raises and the process exits with 1
Connect ==
    /\ pc = "main"
    /\ \E ok \in BOOLEAN :
         IF ok THEN pc' = "map_users" /\ exit_code' = exit_code
         ELSE pc' = "exited" /\ exit_code' = 1
    /\ UNCHANGED <<rvars, svars, dvars, server, GMAIL_CHAT_WEBHOOK, DEVELOPER_MAP, QA_MAP, PM_MAP,
                   internal_user_ids, ALERTED_TICKETS, cycle_count, registry, dev_todo,
                   recent_issues, qa_done_issues, new_critical_tickets,
                   critical_updated_tickets, last_comment, exc, push_attempts, published,
                   outbox, fired>>

\* lines 334-344: the three maps are built; no user at all is fatal
MapUsers ==
    /\ pc = "map_users"
    /\ \E found \in [{"Dev One", "QA One"} -> {"found", "none", "error"}] :
         LET d == build_user_map_once(DEVELOPER_NAMES_STR, found)
             q == build_user_map_once(QA_NAMES_STR, found)
             m == build_user_map_once(PM_NAMES, found)
         IN /\ DEVELOPER_MAP' = d /\ QA_MAP' = q /\ PM_MAP' = m
            /\ IF NoUsers(d, q, m)
               THEN pc' = "exited" /\ exit_code' = 1
               ELSE pc' = "start_thread" /\ exit_code' = exit_code
    /\ UNCHANGED <<rvars, svars, dvars, server, GMAIL_CHAT_WEBHOOK,
                   internal_user_ids, ALERTED_TICKETS, cycle_count, registry, dev_todo,
                   recent_issues, qa_done_issues, new_critical_tickets,
                   critical_updated_tickets, last_comment, exc, push_attempts, published,
                   outbox, fired>>

\* lines 347-352: metrics_thread.start() returns; the worker thread stands at
\* the entry of metrics_collection_loop and the main thread goes on to line 356
StartThread ==
    /\ pc = "start_thread"
    /\ pc' = "thread_entry"
    /\ server' = "starting"
    /\ UNCHANGED <<rvars, svars, dvars, exit_code, GMAIL_CHAT_WEBHOOK, DEVELOPER_MAP, QA_MAP, PM_MAP,
                   internal_user_ids, ALERTED_TICKETS, cycle_count, registry, dev_todo,
                   recent_issues, qa_done_issues, new_critical_tickets,
                   critical_updated_tickets, last_comment, exc, push_attempts, published,
                   outbox, fired>>

\* lines 123-134: the worker binds internal_user_ids and cycle_count and
\* reaches "while True"
EnterLoop ==
    /\ pc = "thread_entry"
    /\ internal_user_ids' = (DOMAIN DEVELOPER_MAP) \cup (DOMAIN QA_MAP) \cup (DOMAIN PM_MAP)
    /\ cycle_count' = 0
    /\ pc' = "cycle_top"
    /\ UNCHANGED <<rvars, svars, dvars, exit_code, server, GMAIL_CHAT_WEBHOOK, DEVELOPER_MAP, QA_MAP, PM_MAP,
                   ALERTED_TICKETS, registry, dev_todo,
                   recent_issues, qa_done_issues, new_critical_tickets,
                   critical_updated_tickets, last_comment, exc, push_attempts, published,
                   outbox, fired>>

\* lines 137-177: a cycle begins with a new registry
CycleTop ==
    /\ pc = "cycle_top"
    /\ cycle_count < MaxCycles
    /\ cycle_count' = cycle_count + 1
    /\ registry' = FreshRegistry
    /\ dev_todo' = KeysList(DEVELOPER_MAP)
    /\ exc' = ""
    /\ push_attempts' = 0
    /\ outbox' = << >>
    /\ last_comment' = None
    /\ published' = None
    /\ pc' = "dev"
    /\ UNCHANGED <<rvars, svars, dvars, exit_code, server, GMAIL_CHAT_WEBHOOK, DEVELOPER_MAP, QA_MAP, PM_MAP,
                   internal_user_ids, ALERTED_TICKETS,
                   recent_issues, qa_done_issues, new_critical_tickets,
                   critical_updated_tickets, fired>>

\* lines 183-190: the next developer's tickets in progress are searched and
\* their number is set
DevCurrent ==
    /\ pc = "dev" /\ dev_todo # << >>
    /\ \E fail \in BOOLEAN :
         IF fail
         THEN /\ pc' = "raised" /\ exc' = "JIRAError"
              /\ UNCHANGED <<registry, current_tickets>>
         ELSE \E tickets \in CurrentLists :
              /\ current_tickets' = tickets
              /\ registry' = [registry EXCEPT !.dev_tickets_in_progress =
                                 DictPut(@, DEVELOPER_MAP[Head(dev_todo)], Len(tickets))]
              /\ pc' = IF tickets # << >> THEN "dev_issue" ELSE "dev_recent"
              /\ exc' = exc
    /\ ticket_idx' = 0
    /\ total_hours' = 0
    /\ recent_issues' = << >>
    /\ outbox' = << >>
    /\ UNCHANGED <<rvars, svars, exit_code, server, GMAIL_CHAT_WEBHOOK, DEVELOPER_MAP, QA_MAP, PM_MAP,
                   internal_user_ids, ALERTED_TICKETS, cycle_count, dev_todo,
                   qa_done_issues, new_critical_tickets,
                   critical_updated_tickets, last_comment, push_attempts, published,
                   fired>>

\* lines 194-207: jira.issue(...) fetches the next ticket in progress and its
\* hours are added to total_hours; after the last ticket the average is set
DevIssue ==
    /\ pc = "dev_issue"
    /\ \E fail \in BOOLEAN :
         IF fail
         THEN /\ pc' = "raised" /\ exc' = "JIRAError"
              /\ UNCHANGED <<registry, ticket_idx, total_hours>>
         ELSE LET ticket == current_tickets[ticket_idx + 1]
                  th == HoursInProgress([total_hours |-> total_hours, raised |-> FALSE],
                                        Reversed(ticket.histories), 1)
              IN IF th.raised
                 THEN /\ pc' = "raised" /\ exc' = "ValueError"
                      /\ UNCHANGED <<registry, ticket_idx, total_hours>>
                 ELSE /\ total_hours' = th.total_hours
                      /\ ticket_idx' = ticket_idx + 1
                      /\ exc' = exc
                      /\ IF ticket_idx + 1 < Len(current_tickets)
                         THEN pc' = "dev_issue" /\ UNCHANGED registry
                         ELSE /\ pc' = "dev_recent"
                              /\ registry' =
                                    IF th.total_hours > 0
                                    THEN [registry EXCEPT !.dev_avg_time_in_progress =
                                            DictPut(@, DEVELOPER_MAP[Head(dev_todo)],
                                                    [total_hours |-> th.total_hours,
                                                     tickets |-> Len(current_tickets)])]
                                    ELSE registry
    /\ UNCHANGED <<rvars, svars, exit_code, server, GMAIL_CHAT_WEBHOOK, DEVELOPER_MAP, QA_MAP, PM_MAP,
                   internal_user_ids, ALERTED_TICKETS, cycle_count, dev_todo, current_tickets,
                   recent_issues, qa_done_issues, new_critical_tickets,
                   critical_updated_tickets, last_comment, push_attempts, published,
                   outbox, fired>>

\* lines 211-233: the developer's recent issues are searched and reduced
DevRecent ==
    /\ pc = "dev_recent"
    /\ \E fail \in BOOLEAN :
         IF fail
         THEN /\ pc' = "raised" /\ exc' = "JIRAError"
              /\ UNCHANGED <<registry, recent_issues, dev_todo>>
         ELSE \E recent \in RecentLists :
              LET rs == DevIssues([registry |-> registry, raised |-> FALSE],
                                  DEVELOPER_MAP[Head(dev_todo)], recent, 1)
              IN /\ registry' = rs.registry
                 /\ recent_issues' = recent
                 /\ IF rs.raised
                    THEN pc' = "raised" /\ exc' = "ValueError" /\ dev_todo' = dev_todo
                    ELSE pc' = "dev" /\ exc' = exc /\ dev_todo' = Tail(dev_todo)
    /\ current_tickets' = << >>
    /\ ticket_idx' = 0
    /\ total_hours' = 0
    /\ UNCHANGED <<rvars, svars, exit_code, server, GMAIL_CHAT_WEBHOOK, DEVELOPER_MAP, QA_MAP, PM_MAP,
                   internal_user_ids, ALERTED_TICKETS, cycle_count,
                   qa_done_issues, new_critical_tickets,
                   critical_updated_tickets, last_comment, push_attempts, published,
                   outbox, fired>>

\* lines 238-257: the QA testing time, when there is a QA team
QaMetrics ==
    /\ pc = "dev" /\ dev_todo = << >>
    /\ IF QA_MAP = EmptyDict
       THEN /\ pc' = "alerts"
            /\ UNCHANGED <<registry, exc, qa_done_issues>>
       ELSE \E fail \in BOOLEAN, issues \in IssueLists :
              IF fail
              THEN /\ pc' = "raised" /\ exc' = "JIRAError"
                   /\ UNCHANGED <<registry, qa_done_issues>>
              ELSE LET r == QaIssues([registry |-> registry, raised |-> FALSE], issues, 1)
                   IN /\ registry' = r.registry
                      /\ qa_done_issues' = issues
                      /\ IF r.raised THEN pc' = "raised" /\ exc' = "ValueError"
                         ELSE pc' = "alerts" /\ exc' = exc
    /\ recent_issues' = << >>
    /\ outbox' = << >>
    /\ UNCHANGED <<rvars, svars, dvars, exit_code, server, GMAIL_CHAT_WEBHOOK, DEVELOPER_MAP, QA_MAP, PM_MAP,
                   internal_user_ids, ALERTED_TICKETS, cycle_count, dev_todo,
                   new_critical_tickets,
                   critical_updated_tickets, last_comment, push_attempts, published,
                   fired>>

\* lines 263-264: the new-critical query
NewCriticalQuery ==
    /\ pc = "alerts"
    /\ \E fail \in BOOLEAN :
         IF fail
         THEN /\ pc' = "raised" /\ exc' = "JIRAError"
              /\ UNCHANGED new_critical_tickets
         ELSE \E tickets \in TicketLists :
              /\ new_critical_tickets' = tickets
              /\ pc' = IF tickets # << >> THEN "alerts_loop" ELSE "updated"
              /\ exc' = exc
    /\ ticket_idx' = 0
    /\ outbox' = << >>
    /\ qa_done_issues' = << >>
    /\ UNCHANGED <<rvars, svars, exit_code, server, GMAIL_CHAT_WEBHOOK, DEVELOPER_MAP, QA_MAP, PM_MAP,
                   internal_user_ids, ALERTED_TICKETS, cycle_count, registry, dev_todo,
                   current_tickets, total_hours, recent_issues,
                   critical_updated_tickets, last_comment, push_attempts, published,
                   fired>>

\* lines 266-274: the alert of the next ticket of the result; a ticket whose
\* fields.reporter is None (has_reporter = FALSE) raises AttributeError at
\* line 271, before its alert is sent, which ends the loop and the try block
NewCriticalAlert ==
    /\ pc = "alerts_loop"
    /\ \E has_reporter \in BOOLEAN, post_ok \in BOOLEAN :
         IF ~has_reporter
         THEN /\ pc' = "raised" /\ exc' = "AttributeError"
              /\ UNCHANGED <<outbox, ticket_idx>>
         ELSE /\ outbox' = Append(outbox,
                                  NewCriticalSend(new_critical_tickets[ticket_idx + 1],
                                                  GMAIL_CHAT_WEBHOOK, post_ok))
              /\ ticket_idx' = ticket_idx + 1
              /\ pc' = IF ticket_idx + 1 < Len(new_critical_tickets)
                       THEN "alerts_loop" ELSE "updated"
              /\ exc' = exc
    /\ UNCHANGED <<rvars, svars, exit_code, server, GMAIL_CHAT_WEBHOOK, DEVELOPER_MAP, QA_MAP, PM_MAP,
                   internal_user_ids, ALERTED_TICKETS, cycle_count, registry, dev_todo,
                   current_tickets, total_hours, recent_issues, qa_done_issues,
                   new_critical_tickets,
                   critical_updated_tickets, last_comment, push_attempts, published,
                   fired>>

\* lines 277-278: the critical tickets updated in the last five minutes
CriticalUpdatedQuery ==
    /\ pc = "updated"
    /\ \E fail \in BOOLEAN, tickets \in TicketLists :
         IF fail
         THEN pc' = "raised" /\ exc' = "JIRAError" /\ UNCHANGED critical_updated_tickets
         ELSE pc' = "comments" /\ exc' = exc /\ critical_updated_tickets' = tickets
    /\ new_critical_tickets' = << >>
    /\ outbox' = << >>
    /\ ticket_idx' = 0
    /\ UNCHANGED <<rvars, svars, current_tickets, total_hours, exit_code, server, GMAIL_CHAT_WEBHOOK, DEVELOPER_MAP, QA_MAP, PM_MAP,
                   internal_user_ids, ALERTED_TICKETS, cycle_count, registry, dev_todo,
                   recent_issues, qa_done_issues,
                   last_comment, push_attempts, published,
                   fired>>

\* lines 280-285: comments() is called for the next ticket (it may raise,
\* line 281) and the most recent comment is tested; a comment whose author is
\* None (has_author = FALSE) raises AttributeError in the test of line 284;
\* when the test holds the worker enters the branch of line 286 and stands
\* before the send_alert call of line 292, nothing sent yet
CommentCheck ==
    /\ pc = "comments" /\ critical_updated_tickets # << >>
    /\ LET key == Head(critical_updated_tickets) IN
       \E answer \in {"raise", "no_comments"} \cup CommentIds :
         IF answer = "raise"
         THEN /\ pc' = "raised" /\ exc' = "JIRAError"
              /\ UNCHANGED <<critical_updated_tickets, last_comment>>
         ELSE IF answer = "no_comments"
         THEN /\ pc' = "comments" /\ exc' = exc
              /\ critical_updated_tickets' = Tail(critical_updated_tickets)
              /\ last_comment' = None
         ELSE \E has_author \in BOOLEAN :
              IF ~has_author
              THEN /\ pc' = "raised" /\ exc' = "AttributeError"
                   /\ last_comment' = Some([key |-> key, id |-> answer, author |-> "None"])
                   /\ UNCHANGED critical_updated_tickets
              ELSE LET c == [key |-> key, id |-> answer, author |-> AuthorOf(answer)]
                   IN /\ last_comment' = Some(c)
                      /\ exc' = exc
                      /\ IF ShouldAlert(internal_user_ids,
                                        ALERTED_TICKETS.new_comment, key, c)
                         THEN /\ pc' = "comment_post"
                              /\ UNCHANGED critical_updated_tickets
                         ELSE /\ pc' = "comments"
                              /\ critical_updated_tickets' = Tail(critical_updated_tickets)
    /\ outbox' = << >>
    /\ UNCHANGED <<rvars, svars, dvars, exit_code, server, GMAIL_CHAT_WEBHOOK, DEVELOPER_MAP, QA_MAP, PM_MAP,
                   internal_user_ids, ALERTED_TICKETS, cycle_count, registry, dev_todo,
                   recent_issues, qa_done_issues, new_critical_tickets,
                   push_attempts, published, fired>>

\* lines 286-292: the message is built and send_alert is called for the
\* comment read (lines 58-64); the call returns when the post of line 61 has
\* returned or raised, or at once when no webhook is set (line 59), and the
\* worker stands before line 293
CommentAlert ==
    /\ pc = "comment_post"
    /\ \E post_ok \in BOOLEAN :
         outbox' = <<[kind |-> "new_comment", key |-> last_comment[1].key,
                      comment |-> last_comment[1].id,
                      result |-> send_alert(GMAIL_CHAT_WEBHOOK, post_ok)]>>
    /\ fired' = fired \cup {<<last_comment[1].key, last_comment[1].id>>}
    /\ pc' = "comment_sent"
    /\ UNCHANGED <<rvars, svars, dvars, exit_code, server, GMAIL_CHAT_WEBHOOK, DEVELOPER_MAP, QA_MAP, PM_MAP,
                   internal_user_ids, ALERTED_TICKETS, cycle_count, registry, dev_todo,
                   recent_issues, qa_done_issues, new_critical_tickets,
                   critical_updated_tickets, last_comment, exc, push_attempts, published>>

\* line 293: send_alert has returned; the comment's id is recorded for its
\* ticket and the loop goes on to the next ticket
CommentRecord ==
    /\ pc = "comment_sent"
    /\ ALERTED_TICKETS' =
          [ALERTED_TICKETS EXCEPT !.new_comment =
              RecordAlert(@, last_comment[1].key, last_comment[1].id, outbox[1].result)]
    /\ critical_updated_tickets' = Tail(critical_updated_tickets)
    /\ pc' = "comments"
    /\ UNCHANGED <<rvars, svars, dvars, exit_code, server, GMAIL_CHAT_WEBHOOK, DEVELOPER_MAP, QA_MAP, PM_MAP,
                   internal_user_ids, cycle_count, registry, dev_todo,
                   recent_issues, qa_done_issues, new_critical_tickets,
                   last_comment, exc, push_attempts, published, outbox, fired>>

\* lines 296-297: the registry is pushed once; requests.post raises
\* ConnectionError when the backend cannot be reached (line 108) and
\* raise_for_status raises HTTPError on an error status (line 114)
Push ==
    /\ pc = "comments" /\ critical_updated_tickets = << >>
    /\ push_attempts' = push_attempts + 1
    /\ \E outcome \in {"ok", "HTTPError", "ConnectionError"} :
         IF outcome = "ok"
         THEN /\ published' = Some(registry)
              /\ pc' = "sleep" /\ exc' = exc
         ELSE /\ pc' = "raised" /\ exc' = outcome
              /\ UNCHANGED published
    /\ outbox' = << >>
    /\ last_comment' = None
    /\ UNCHANGED <<rvars, svars, dvars, exit_code, server, GMAIL_CHAT_WEBHOOK, DEVELOPER_MAP, QA_MAP, PM_MAP,
                   internal_user_ids, ALERTED_TICKETS, cycle_count, registry, dev_todo,
                   recent_issues, qa_done_issues, new_critical_tickets,
                   critical_updated_tickets, fired>>

\* lines 299-300 undoing the dedup entries along with the failed cycle
Handler_forgets ==
    /\ pc = "raised"
    /\ pc' = IF Catches(exc) THEN "sleep" ELSE "thread_dead"
    /\ outbox' = << >>
    /\ recent_issues' = << >> /\ qa_done_issues' = << >>
    /\ new_critical_tickets' = << >> /\ critical_updated_tickets' = << >>
    /\ last_comment' = None
    /\ current_tickets' = << >> /\ ticket_idx' = 0 /\ total_hours' = 0
    /\ ALERTED_TICKETS' = [new_comment |-> EmptyDict]
    /\ UNCHANGED <<rvars, svars, exit_code, server, GMAIL_CHAT_WEBHOOK, DEVELOPER_MAP, QA_MAP, PM_MAP,
                   internal_user_ids, cycle_count, registry, dev_todo,
                   exc, push_attempts, published, fired>>

\* lines 299-300: the exception is logged; one that is not caught ends the thread
Handler ==
    /\ pc = "raised"
    /\ pc' = IF Catches(exc) THEN "sleep" ELSE "thread_dead"
    /\ outbox' = << >>
    /\ recent_issues' = << >> /\ qa_done_issues' = << >>
    /\ new_critical_tickets' = << >> /\ critical_updated_tickets' = << >>
    /\ last_comment' = None
    /\ current_tickets' = << >> /\ ticket_idx' = 0 /\ total_hours' = 0
    /\ UNCHANGED <<rvars, svars, exit_code, server, GMAIL_CHAT_WEBHOOK, DEVELOPER_MAP, QA_MAP, PM_MAP,
                   internal_user_ids, ALERTED_TICKETS, cycle_count, registry, dev_todo,
                   exc, push_attempts, published, fired>>

\* lines 302-303: time.sleep(300), then the next pass of "while True"
Sleep ==
    /\ pc = "sleep"
    /\ pc' = "cycle_top"
    /\ UNCHANGED <<rvars, svars, dvars, exit_code, server, GMAIL_CHAT_WEBHOOK, DEVELOPER_MAP, QA_MAP, PM_MAP,
                   internal_user_ids, ALERTED_TICKETS, cycle_count, registry, dev_todo,
                   recent_issues, qa_done_issues, new_critical_tickets,
                   critical_updated_tickets, last_comment, exc, push_attempts, published,
                   outbox, fired>>

\* lines 356-358, run by the main thread while the worker thread runs:
\* int(PORT) and app.run succeed and the server answers from then on, or one
\* of them raises (ValueError for a PORT that is no number, OSError for a
\* port in use): the exception is not caught, and the process ends with
\* status 1, its daemon worker thread with it, wherever that stands
RunServer ==
    /\ server = "starting"
    /\ \E ok \in BOOLEAN :
         IF ok
         THEN server' = "serving" /\ UNCHANGED <<pc, exit_code>>
         ELSE server' = "off" /\ pc' = "exited" /\ exit_code' = 1
    /\ UNCHANGED <<rvars, svars, dvars, GMAIL_CHAT_WEBHOOK, DEVELOPER_MAP, QA_MAP, PM_MAP,
                   internal_user_ids, ALERTED_TICKETS, cycle_count, registry, dev_todo,
                   recent_issues, qa_done_issues, new_critical_tickets,
                   critical_updated_tickets, last_comment, exc, push_attempts, published,
                   outbox, fired>>

\* the process: __main__ and the worker thread
Next ==
    \/ Connect \/ MapUsers \/ StartThread \/ RunServer
    \/ EnterLoop \/ CycleTop \/ DevCurrent \/ DevIssue \/ DevRecent \/ QaMetrics
    \/ NewCriticalQuery \/ NewCriticalAlert
    \/ CriticalUpdatedQuery \/ CommentCheck \/ CommentAlert \/ CommentRecord
    \/ Push \/ Handler \/ Sleep

Spec == Init /\ [][Next]_vars

\* The process with the alert webhook configured, the configuration in which an
\* alert send can fail.
InitLive == Init /\ GMAIL_CHAT_WEBHOOK

\* The worker thread is scheduled again and again and each of its calls returns.
SpecLive == InitLive /\ [][Next]_vars /\ WF_vars(Next)

(***************************************************************************)
(* One call of business_hours_between (lines 48-50) on two instants.       *)
(***************************************************************************)
\* the instants: midnight, 09:00 and 23:00 of every day up to MaxDays
Instants == {24 * d + h : d \in 0..MaxDays, h \in {0, 9, 23}}

InitHours ==
    /\ InitGlobals /\ NoReduction
    /\ GMAIL_CHAT_WEBHOOK = FALSE
    /\ DEVELOPER_NAMES_STR = DEVELOPER_NAMES
    /\ QA_NAMES_STR = QA_NAMES
    /\ start_dt \in Instants
    /\ end_dt \in Instants
    /\ bh_result = None

\* lines 48-50: the call returns
CallBusinessHours ==
    /\ bh_result = None
    /\ bh_result' = Some(business_hours_between(start_dt, end_dt))
    /\ UNCHANGED <<rvars, wvars, DEVELOPER_NAMES_STR, QA_NAMES_STR, response,
                   start_dt, end_dt>>

NextHours == CallBusinessHours

SpecHours == InitHours /\ [][NextHours]_vars

(***************************************************************************)
(* The web server (lines 306-319 and 355-358), which the main thread runs  *)
(* once the worker thread is started.                                      *)
(***************************************************************************)
\* The process under every setting of DEVELOPER_LIST and QA_LIST (set or not
\* set), without an alert webhook.
InitStartup ==
    /\ InitGlobals /\ NoCall /\ NoReduction
    /\ GMAIL_CHAT_WEBHOOK = FALSE
    /\ DEVELOPER_NAMES_STR \in {<< >>, DEVELOPER_NAMES}
    /\ QA_NAMES_STR \in {<< >>, QA_NAMES}

SpecStartup == InitStartup /\ [][Next]_vars

\* line 358: app.run is answering requests
Serving == server = "serving"

\* line 352 has run: the worker thread exists
Started == pc \notin {"main", "map_users", "start_thread", "exited"}

\* lines 308-310
hello_world ==
    /\ Serving
    /\ response' = Some([route |-> "/", body |-> "OK"])
    /\ UNCHANGED <<rvars, wvars, DEVELOPER_NAMES_STR, QA_NAMES_STR,
                   start_dt, end_dt, bh_result>>

\* lines 312-319 writing the map it reports
health_check_clears ==
    /\ Serving
    /\ response' = Some([route |-> "/health",
                         body |-> [status |-> "OK",
                                   developers |-> Cardinality(DOMAIN DEVELOPER_MAP),
                                   qa_team |-> Cardinality(DOMAIN QA_MAP),
                                   pm_team |-> Cardinality(DOMAIN PM_MAP)]])
    /\ DEVELOPER_MAP' = EmptyDict
    /\ UNCHANGED <<rvars, DEVELOPER_NAMES_STR, QA_NAMES_STR, start_dt, end_dt, bh_result,
                   dvars, pc, exit_code, server, GMAIL_CHAT_WEBHOOK, QA_MAP, PM_MAP,
                   internal_user_ids, ALERTED_TICKETS, cycle_count, registry, dev_todo,
                   recent_issues, qa_done_issues, new_critical_tickets,
                   critical_updated_tickets, last_comment, exc, push_attempts, published,
                   outbox, fired>>

\* lines 312-319: the sizes of the three maps
health_check ==
    /\ Serving
    /\ response' = Some([route |-> "/health",
                         body |-> [status |-> "OK",
                                   developers |-> Cardinality(DOMAIN DEVELOPER_MAP),
                                   qa_team |-> Cardinality(DOMAIN QA_MAP),
                                   pm_team |-> Cardinality(DOMAIN PM_MAP)]])
    /\ UNCHANGED <<rvars, wvars, DEVELOPER_NAMES_STR, QA_NAMES_STR,
                   start_dt, end_dt, bh_result>>

NextWeb == Next \/ hello_world \/ health_check

\* The whole process, worker thread and web server, with the alert webhook
\* configured: the web server answers requests while the worker's posts are
\* in flight.
InitWeb == Init /\ GMAIL_CHAT_WEBHOOK

SpecWeb == InitWeb /\ [][NextWeb]_vars

(***************************************************************************)
(* Properties of the worker.                                               *)
(***************************************************************************)
\* a step of the loop of line 280 in which comments() returned for a ticket
\* and the test of lines 282-285 was decided: the loop went on to the next
\* ticket or entered the branch of line 286
CommentStep ==
    /\ pc = "comments" /\ critical_updated_tickets # << >>
    /\ \/ critical_updated_tickets' = Tail(critical_updated_tickets)
       \/ pc' = "comment_post"

\* the step in which the send_alert call of line 292 is made and returns
SendStep == pc = "comment_post" /\ pc' = "comment_sent"

\* the step of line 293 that follows a send_alert call of line 292
RecordStep == pc = "comment_sent" /\ pc' = "comments"

\* that step called send_alert, once, for the ticket and the comment read
SentFor(key) ==
    /\ Len(outbox') = 1
    /\ outbox'[1].kind = "new_comment"
    /\ outbox'[1].key = key
    /\ outbox'[1].comment = last_comment[1].id

\* C1: the send_alert call of line 292 is never made for a (ticket, comment
\* id) pair it was made for earlier in the life of the process.  The code
\* breaks it: the dedup state holds one id for a ticket, so a pair alerted
\* before the ticket's entry was overwritten is alerted again.
C1_AtMostOncePerPair ==
    [][SendStep => <<last_comment[1].key, last_comment[1].id>> \notin fired]_vars

C3_CycleAlwaysContinues ==
    /\ [](pc # "thread_dead")
    /\ [][(pc = "raised" /\ pc' # pc) => pc' \in {"sleep", "exited"}]_vars
    /\ (pc = "raised" \/ (pc = "sleep" /\ cycle_count < MaxCycles))
          ~> (pc = "dev" \/ (pc = "sleep" /\ cycle_count = MaxCycles) \/ pc = "exited")

\* C3: a second cycle failed on its timestamp parse and reached the sleep
C3_Witness == pc = "sleep" /\ exc = "ValueError" /\ cycle_count = 2

\* C4: a cycle in which a tracker query failed still reaches the metrics push.
C4_PartialSnapshotPublished ==
    (pc = "sleep" /\ exc = "JIRAError") => push_attempts >= 1

\* a step of the loop of line 280 in which comments() returned for a ticket
\* of the critical-updated query, whatever became of the test of lines 282-285
CommentRead ==
    /\ pc = "comments" /\ critical_updated_tickets # << >>
    /\ \/ CommentStep
       \/ pc' = "raised" /\ exc' = "AttributeError"

\* C5: for every ticket of the critical-updated query whose comments were
\* read: the branch of line 286 is entered, the alert sent and the ticket's
\* dedup entry then set to the most recent comment's id, exactly when the
\* comment's author is not in the internal account set and its id differs
\* from the recorded one; otherwise (internal author, same id, no comment)
\* the loop goes on to the next ticket with nothing sent and the dedup state
\* unchanged; the entries of other tickets never change.  The code breaks
\* it: a most recent comment without an author is of no internal account, but
\* the test of line 284 raises on it, so no alert is sent for a new one, and
\* the loop is left with the tickets after it unread.
C5_AlertIffExternalAndNew ==
    [][/\ CommentRead =>
            LET key == Head(critical_updated_tickets)
                old == ALERTED_TICKETS.new_comment
            IN /\ ALERTED_TICKETS' = ALERTED_TICKETS
               /\ fired' = fired
               /\ outbox' = << >>
               /\ last_comment' = None => pc' = "comments"
               /\ last_comment' # None =>
                     LET c == last_comment'[1]
                         fresh == c.author \notin internal_user_ids
                                  /\ DictGet(old, key) # c.id
                     IN /\ c.key = key
                        /\ fresh => pc' = "comment_post"
                        /\ ~fresh =>
                              (pc' = "comments"
                                 /\ critical_updated_tickets' = Tail(critical_updated_tickets))
       /\ SendStep => SentFor(Head(critical_updated_tickets))
       /\ RecordStep =>
            /\ last_comment[1].key = Head(critical_updated_tickets)
            /\ ALERTED_TICKETS'.new_comment =
                  DictPut(ALERTED_TICKETS.new_comment, last_comment[1].key, last_comment[1].id)
       /\ (pc = "comment_post" /\ pc' # pc) => pc' \in {"comment_sent", "exited"}
       /\ (pc = "comment_sent" /\ pc' # pc) => pc' \in {"comments", "exited"}
       /\ fired' # fired => SendStep
       /\ ALERTED_TICKETS' # ALERTED_TICKETS => RecordStep
      ]_vars

\* the issues of a list that hold both an entry into In Progress and an entry
\* into IN PROGRESS D
WithStartAndEnd(issues) ==
    {i \in 1..Len(issues) :
        /\ EntryTimes(issues[i].histories, {"In Progress"}) # {}
        /\ EntryTimes(issues[i].histories, {"IN PROGRESS D"}) # {}}

\* the issues of a list for which the QA reduction found both times
WithTestStartAndEnd(issues) ==
    {i \in 1..Len(issues) :
        /\ QaReduce(issues[i].histories).test_start_time # None
        /\ QaReduce(issues[i].histories).test_end_time # None}

\* observations a Summary holds for a label
SummaryCount(metric, label) == IF label \in DOMAIN metric THEN metric[label].count ELSE 0

\* C9: when the developer phase of a cycle has run, dev_cycle_time holds one
\* observation for every recent issue with both a start and an end event and
\* none for the others; when the QA phase has run, qa_cycle_time holds one
\* observation for every issue with both a test start and a test end.
C9_ObservationOnlyWithBoth ==
    /\ (pc = "dev" /\ dev_todo = << >> /\ DEVELOPER_MAP # EmptyDict) =>
          SummaryCount(registry.dev_cycle_time, "Dev One")
             = Cardinality(WithStartAndEnd(recent_issues))
    /\ (pc = "alerts" /\ QA_MAP # EmptyDict) =>
          registry.qa_cycle_time.count = Cardinality(WithTestStartAndEnd(qa_done_issues))

\* C9: the cycle reduced A (both events) and S (a start and no end) and holds
\* one observation, of 24 hours
C9_Witness ==
    /\ pc = "dev" /\ dev_todo = << >>
    /\ recent_issues = <<IssueA, IssueS>>
    /\ registry.dev_cycle_time = DictPut(EmptyDict, "Dev One", [count |-> 1, sum |-> 24])

\* C11: a cycle in which the timestamp of a changelog record could not be
\* parsed still reaches its alert and publish steps: when such a cycle stands at
\* its sleep, the metrics push was attempted.
C11_ParseErrorSkipsOnlyRecord ==
    (pc = "sleep" /\ exc = "ValueError") => push_attempts >= 1

\* a send_alert call whose post failed (lines 63-64)
FailedAlert(box) == \E i \in 1..Len(box) : box[i].result = "failed"

\* the exceptions of a failed metrics push (lines 108 and 114)
PushFailed(e) == e \in {"HTTPError", "ConnectionError"}

\* C12: a failed alert post is made once and the worker goes on: the step
\* raises nothing and moves to the next ticket, to the write of line 293 or
\* to the next phase, no ticket is posted twice in a loop, and when the
\* new-critical loop is over every ticket of its result was sent its alert;
\* the metrics push is attempted at most once in a cycle, and its failure is
\* raised once, to the handler of line 299, with nothing published; and after
\* either failure the next cycle starts (as long as the model follows the
\* worker and the process lives).
C12_FailedSendOnceAndHarmless ==
    /\ [][/\ push_attempts' <= 1
          /\ (outbox' # outbox /\ outbox' # << >>
                 /\ outbox'[Len(outbox')].result = "failed") =>
                /\ pc' \in {"alerts_loop", "updated", "comment_sent"}
                /\ exc' = ""
                /\ Len(outbox') = Len(outbox) + 1
          /\ \A i, j \in 1..Len(outbox') : i # j => outbox'[i].key # outbox'[j].key
          /\ (pc = "alerts_loop" /\ pc' = "updated") =>
                /\ Len(outbox') = Len(new_critical_tickets)
                /\ \A i \in 1..Len(outbox') : outbox'[i].key = new_critical_tickets[i]
          /\ (pc = "comment_post" /\ pc' # pc) => pc' \in {"comment_sent", "exited"}
          /\ (pc = "comment_sent" /\ pc' # pc) => pc' \in {"comments", "exited"}
          /\ (PushFailed(exc') /\ exc = "") =>
                /\ pc = "comments" /\ pc' = "raised"
                /\ push_attempts = 0 /\ push_attempts' = 1
                /\ published' = None
          /\ (pc = "raised" /\ PushFailed(exc) /\ pc' # pc) =>
                (pc' \in {"sleep", "exited"} /\ push_attempts' = 1)
         ]_vars
    /\ ((FailedAlert(outbox) \/ PushFailed(exc)) /\ cycle_count < MaxCycles)
          ~> (pc = "dev" \/ pc = "exited")

\* C12: in a second cycle the post for GRV-1 failed and the alert for GRV-2
\* was still delivered, each posted once
C12_Witness ==
    /\ cycle_count = 2 /\ pc = "updated"
    /\ Len(outbox) = 2
    /\ outbox[1].key = "GRV-1" /\ outbox[1].result = "failed"
    /\ outbox[2].key = "GRV-2" /\ outbox[2].result = "delivered"

\* the step that ends the new-critical phase (lines 263-274) of a cycle whose
\* query (line 264) returned, the process going on
NewCriticalStep ==
    /\ pc \in {"alerts", "alerts_loop"}
    /\ pc' \in {"updated", "raised"}
    /\ exc' # "JIRAError"

\* C13: when the new-critical phase of a cycle whose query returned is over,
\* send_alert was called exactly once for every ticket the query returned
\* and for no other ticket, whatever the dedup state holds (so also for a
\* ticket returned and alerted in an earlier cycle); the phase leaves the
\* dedup state as it was; no step of another phase sends a new-critical
\* alert.  The code breaks it: a returned ticket without a reporter raises at
\* line 271, and neither it nor the tickets after it in the result are
\* alerted in that cycle.
C13_NewCriticalOncePerCycle ==
    [][/\ NewCriticalStep =>
            /\ \A t \in Tickets :
                  Cardinality({i \in 1..Len(outbox') :
                                  outbox'[i].kind = "new_critical" /\ outbox'[i].key = t})
                    = Cardinality({i \in 1..Len(new_critical_tickets') :
                                      new_critical_tickets'[i] = t})
            /\ \A i \in 1..Len(outbox') : outbox'[i].kind = "new_critical"
       /\ pc \in {"alerts", "alerts_loop"} =>
            (ALERTED_TICKETS' = ALERTED_TICKETS /\ fired' = fired)
       /\ pc \notin {"alerts", "alerts_loop"} =>
            \A i \in 1..Len(outbox') :
                outbox'[i].kind = "new_critical" => outbox' = outbox
      ]_vars

\* no gauge, counter, summary or histogram of the registry holds anything
RegistryIsEmpty(r) ==
    /\ DOMAIN r.dev_tickets_in_progress = {}
    /\ DOMAIN r.dev_avg_time_in_progress = {}
    /\ DOMAIN r.dev_cycle_time = {}
    /\ DOMAIN r.dev_rework_count = {}
    /\ r.qa_cycle_time.count = 0 /\ r.qa_cycle_time.sum = 0
    /\ \A b \in 1..5 : r.qa_cycle_time.buckets[b] = 0

RECURSIVE ReworkTotal(_, _)
\* the rework events of the issues of a list, from issue i on
ReworkTotal(issues, i) ==
    IF i > Len(issues) THEN 0
    ELSE Cardinality(ReworkItems(issues[i].histories)) + ReworkTotal(issues, i + 1)

\* C14: the step that begins a cycle leaves every metric of the registry
\* empty, whatever the registry of the cycle before held; the registry is
\* written only by that step and by the metric phases of its cycle; when the
\* developer phase has run, the cycle-time summary and the rework counter hold
\* what the recent issues of this cycle amount to and nothing more; and the
\* snapshot a cycle publishes is its own registry.
C14_SnapshotFreshEachCycle ==
    /\ [][/\ cycle_count' # cycle_count => RegistryIsEmpty(registry')
          /\ registry' # registry =>
                pc \in {"cycle_top", "dev", "dev_issue", "dev_recent"}
          /\ published' # published =>
                (published' = None \/ published' = Some(registry))
         ]_vars
    /\ [](pc = "dev" /\ dev_todo = KeysList(DEVELOPER_MAP) => RegistryIsEmpty(registry))
    /\ []((pc = "dev" /\ dev_todo = << >> /\ DEVELOPER_MAP # EmptyDict) =>
            /\ SummaryCount(registry.dev_cycle_time, "Dev One")
                  = Cardinality(WithStartAndEnd(recent_issues))
            /\ DictGet(CounterInc(registry.dev_rework_count, "Dev One", 0), "Dev One")
                  = ReworkTotal(recent_issues, 1))

\* C14: a second cycle begins with an empty registry after a cycle that got
\* as far as its comment alerts, and so had set the developer's gauges
C14_Witness ==
    /\ cycle_count = 2 /\ pc = "dev"
    /\ DEVELOPER_MAP # EmptyDict /\ dev_todo = KeysList(DEVELOPER_MAP)
    /\ fired # {}
    /\ RegistryIsEmpty(registry)

\* a step of the web server that answered a request
WebStep == response' # response

\* C15: the worker is one sequential thread: it is started once, cycle_count
\* grows by one and only at the top of the loop, the top is reached only from
\* the sleep (or the thread's start) and the sleep only from the end of the
\* cycle before (its push or its exception handler); the dedup state is
\* written only by the worker's line 293 and the comment alert sent only by
\* its line 292; and a request answered by the web server, at whatever point
\* of the worker's cycle, writes neither the dedup state nor the registry or
\* the published snapshot nor the account maps, and neither moves the worker
\* nor touches the alert it is sending.
C15_SingleSequentialWorker ==
    [][/\ cycle_count' # cycle_count =>
            (cycle_count' = cycle_count + 1 /\ pc = "cycle_top" /\ pc' = "dev")
       /\ (pc' = "cycle_top" /\ pc # "cycle_top") => pc \in {"sleep", "thread_entry"}
       /\ (pc' = "sleep" /\ pc # "sleep") => pc \in {"comments", "raised"}
       /\ (pc' = "thread_entry" /\ pc # "thread_entry") => pc = "start_thread"
       /\ (pc' = "start_thread" /\ pc # "start_thread") => pc = "map_users"
       /\ ALERTED_TICKETS' # ALERTED_TICKETS => (RecordStep /\ ~WebStep)
       /\ fired' # fired => (SendStep /\ ~WebStep)
       /\ WebStep =>
            /\ Serving
            /\ UNCHANGED <<ALERTED_TICKETS, fired, registry, published,
                           DEVELOPER_MAP, QA_MAP, PM_MAP, internal_user_ids,
                           pc, cycle_count, critical_updated_tickets, dev_todo,
                           last_comment, outbox, exc>>
      ]_vars

\* C15: with the webhook configured and the web server answering, /health
\* has been answered and the worker stands in the send_alert call of line 292
\* for GRV-2, its post not yet returned, the alert for GRV-1 sent and its
\* entry written before
C15_Witness ==
    /\ GMAIL_CHAT_WEBHOOK /\ Serving
    /\ response # None /\ response[1].route = "/health"
    /\ response[1].body.developers = 1
    /\ pc = "comment_post" /\ critical_updated_tickets = <<"GRV-2">>
    /\ outbox = << >>
    /\ DOMAIN ALERTED_TICKETS.new_comment = {"GRV-1"}
    /\ <<"GRV-1", ALERTED_TICKETS.new_comment["GRV-1"]>> \in fired
    /\ DEVELOPER_MAP # EmptyDict

\* C16: the process exits, with code 1 and before the worker thread exists,
\* exactly when JIRA(...) raises or no account at all was mapped, which is
\* what happens when neither name list is set; in every other case the thread
\* is started and enters its loop, and from then on the process never exits.
\* The code breaks it: when int(PORT) or app.run raises (lines 356-358) the
\* process exits with status 1 after the thread was started.
C16_StartupExit ==
    /\ [](pc = "exited" <=> exit_code = 1)
    /\ [](pc = "exited" =>
            (cycle_count = 0 /\ internal_user_ids = {} /\ RegistryIsEmpty(registry)))
    /\ []((DEVELOPER_NAMES_STR = << >> /\ QA_NAMES_STR = << >>
              /\ pc \notin {"main", "map_users"}) => pc = "exited")
    /\ [][/\ (pc = "main" /\ pc' # pc) => pc' \in {"map_users", "exited"}
          /\ (pc = "map_users" /\ pc' # pc) =>
                /\ pc' \in {"start_thread", "exited"}
                /\ pc' = "exited" <=>
                      (DOMAIN DEVELOPER_MAP' = {} /\ DOMAIN QA_MAP' = {}
                         /\ DOMAIN PM_MAP' = {})
          /\ (pc = "start_thread" /\ pc' # pc) => pc' = "thread_entry"
          /\ (pc = "thread_entry" /\ pc' # pc) => (pc' = "cycle_top" /\ cycle_count' = 0)
          /\ pc = "exited" => pc' = "exited"
          /\ Started => (Started' /\ exit_code' = 0)
         ]_vars

RECURSIVE WorkingDays(_, _)
\* the days from d to e, both included, that are not a Saturday (5) or a
\* Sunday (6), counted one day at a time
WorkingDays(d, e) ==
    IF d > e THEN 0
    ELSE (IF d % 7 \in {5, 6} THEN 0 ELSE 1) + WorkingDays(d + 1, e)

\* C17: business_hours_between(start, end) is 8 times the number of days
\* from start.date() to end.date(), both included, that fall on Monday to
\* Friday: 8 for two instants of one weekday, 16 from a Friday to the Monday
\* after it.
C17_BusinessHours ==
    bh_result # None =>
        /\ bh_result[1] = 8 * WorkingDays(start_dt \div 24, end_dt \div 24)
        /\ (start_dt \div 24 = end_dt \div 24 /\ (start_dt \div 24) % 7 \in 0..4)
              => bh_result[1] = 8
        /\ ((start_dt \div 24) % 7 = 4 /\ end_dt \div 24 = start_dt \div 24 + 3)
              => bh_result[1] = 16

\* C17: Friday 09:00 to the Monday after it, 09:00, gave 16
C17_Witness ==
    /\ start_dt = 4 * 24 + 9 /\ end_dt = 7 * 24 + 9
    /\ bh_result = Some(16)

\* C18: when the comment-alert branch was taken for a ticket, the send_alert
\* call of line 292 ends as delivered, as failed, or with no post made for
\* want of a webhook, and in each case the step of line 293 follows and sets
\* the ticket's dedup entry to the comment's id; and a ticket whose entry is
\* the id of its most recent comment is sent nothing when it is read, so the
\* alert is not attempted again while that comment stays the most recent one.
C18_RecordedWhateverDelivery ==
    [][/\ SendStep =>
            /\ Len(outbox') = 1
            /\ outbox'[1].kind = "new_comment"
            /\ outbox'[1].key = last_comment[1].key
            /\ outbox'[1].comment = last_comment[1].id
            /\ outbox'[1].result \in {"delivered", "failed", "no_webhook"}
            /\ outbox'[1].result = "no_webhook" <=> ~GMAIL_CHAT_WEBHOOK
            /\ ALERTED_TICKETS' = ALERTED_TICKETS
            /\ exc' = ""
       /\ (pc = "comment_post" /\ pc' # pc) => pc' \in {"comment_sent", "exited"}
       /\ (pc = "comment_sent" /\ pc' # pc) =>
            \/ pc' = "exited"
            \/ /\ pc' = "comments"
               /\ DictGet(ALERTED_TICKETS'.new_comment, outbox[1].key) = outbox[1].comment
       /\ (CommentStep /\ last_comment' # None
              /\ DictGet(ALERTED_TICKETS.new_comment, Head(critical_updated_tickets))
                    = last_comment'[1].id) =>
            /\ pc' = "comments"
            /\ critical_updated_tickets' = Tail(critical_updated_tickets)
            /\ outbox' = << >>
            /\ ALERTED_TICKETS' = ALERTED_TICKETS /\ fired' = fired
      ]_vars

\* C18: the post of the alert for comment c2 of GRV-1 has just failed and c2
\* is the ticket's dedup entry
C18_Witness ==
    /\ pc = "comments" /\ outbox # << >>
    /\ outbox[1].kind = "new_comment" /\ outbox[1].key = "GRV-1"
    /\ outbox[1].comment = "c2" /\ outbox[1].result = "failed"
    /\ DictGet(ALERTED_TICKETS.new_comment, "GRV-1") = "c2"

\* the positions the worker can move to from a position
Successors(p) ==
    CASE p = "cycle_top" -> {"dev"}
      [] p = "dev" -> {"dev_issue", "dev_recent", "alerts", "raised"}
      [] p = "dev_issue" -> {"dev_recent", "raised"}
      [] p = "dev_recent" -> {"dev", "raised"}
      [] p = "alerts" -> {"alerts_loop", "updated", "raised"}
      [] p = "alerts_loop" -> {"updated", "raised"}
      [] p = "updated" -> {"comments", "raised"}
      [] p = "comments" -> {"comment_post", "sleep", "raised"}
      [] p = "comment_post" -> {"comment_sent"}
      [] p = "comment_sent" -> {"comments"}
      [] p = "raised" -> {"sleep"}
      [] p = "sleep" -> {"cycle_top"}
      [] OTHER -> {"map_users", "start_thread", "thread_entry", "cycle_top", "exited"}

\* C19: the worker passes through developer metrics, QA metrics, new-critical
\* alerts, comment alerts and the push in that order, leaving the order only
\* for the exception handler (or with the end of the process); the push is attempted at most once in a cycle,
\* after the last ticket of the comment alerts and with no exception raised;
\* a cycle that raised before its push attempted none and published nothing;
\* and the handler keeps the dedup entries and the alerts already sent.
C19_PhaseOrderAndPush ==
    /\ [][/\ pc' # pc => pc' \in Successors(pc) \cup {"exited"}
          /\ (pc = "dev" /\ pc' = "alerts") => dev_todo = << >>
          /\ (push_attempts' # push_attempts /\ cycle_count' = cycle_count) =>
                /\ pc = "comments" /\ critical_updated_tickets = << >>
                /\ exc = ""
                /\ push_attempts = 0 /\ push_attempts' = 1
          /\ pc = "raised" =>
                /\ ALERTED_TICKETS' = ALERTED_TICKETS
                /\ fired' = fired
                /\ published' = published
         ]_vars
    /\ [](push_attempts <= 1)
    /\ [](exc \in {"JIRAError", "ValueError", "AttributeError"} =>
            (push_attempts = 0 /\ published = None))
    /\ [](published # None => (exc = "" /\ push_attempts = 1))

\* C19: the first cycle alerted for GRV-1, failed on comments() of the next
\* ticket, and stands at its sleep with the entry kept and nothing published
C19_Witness ==
    /\ cycle_count = 1 /\ pc = "sleep" /\ exc = "JIRAError"
    /\ push_attempts = 0 /\ published = None
    /\ DOMAIN ALERTED_TICKETS.new_comment = {"GRV-1"}
    /\ fired # {}

\* C20: no step of the process, in a cycle that completes or in one that
\* fails, removes a ticket from the dedup state: every key of
\* ALERTED_TICKETS["new_comment"] is still a key after the step, and an entry
\* changes only by being overwritten with the id of the comment just alerted.
C20_DedupOnlyGrows ==
    [][/\ DOMAIN ALERTED_TICKETS.new_comment \subseteq DOMAIN ALERTED_TICKETS'.new_comment
       /\ DOMAIN ALERTED_TICKETS' = {"new_comment"}
       /\ \A t \in DOMAIN ALERTED_TICKETS.new_comment :
             ALERTED_TICKETS'.new_comment[t] # ALERTED_TICKETS.new_comment[t] =>
                /\ outbox' # << >>
                /\ outbox'[1].key = t
                /\ outbox'[1].comment = ALERTED_TICKETS'.new_comment[t]
      ]_vars

\* C20: in a third cycle, which failed, both tickets still have their entry,
\* that of GRV-1 overwritten since its first alert
C20_Witness ==
    /\ cycle_count = 3 /\ pc = "sleep" /\ exc # ""
    /\ DOMAIN ALERTED_TICKETS.new_comment = {"GRV-1", "GRV-2"}
    /\ ALERTED_TICKETS.new_comment["GRV-1"] = "c2"
    /\ <<"GRV-1", "c1">> \in fired

====
